---------------------------- MODULE Spec2Model ----------------------------
(***************************************************************************)
(* Statistical process control / process capability logic of the CPV      *)
(* dashboard (src/pages/Continued_Process_Verification_CPV.py).           *)
(*                                                                         *)
(* Numbers.  The code computes in IEEE doubles through pandas/numpy.  The  *)
(* model computes in exact arithmetic: a finite number is a + b*sqrt(r)    *)
(* with a, b, r rationals (the only irrational the code produces is the    *)
(* square root taken by Series.std()), and the two non-finite values the   *)
(* code can produce, NaN and +/-infinity, are explicit.  Rounding error of *)
(* the doubles is not modelled.                                            *)
(***************************************************************************)
EXTENDS Integers, Sequences, FiniteSets, TLC

(***************************************************************************)
(* Bounds of the model.                                                    *)
(***************************************************************************)
MaxLen == 3        \* short series: every series of 0..MaxLen values
MaxVal == 2        \* short series take their values in 0..MaxVal
RunLen == 20       \* long series: RunLen-1 or RunLen batches at a base value
MaxSpikePos == 3   \* the first special-cause batch is one of the first MaxSpikePos
MaxOutlierLen == 11  \* outlier series: 2..MaxOutlierLen batches, one of them apart
MaxFlowLen == 4    \* filtration studies of 2..MaxFlowLen throughput points

(***************************************************************************)
(* Rationals: <<n, d>> with d > 0 and gcd(n, d) = 1.                       *)
(***************************************************************************)
Abs(n) == IF n < 0 THEN -n ELSE n

RECURSIVE GCD(_, _)
GCD(a, b) == IF b = 0 THEN a ELSE GCD(b, a % b)

R(n, d) ==
    LET s == IF d < 0 THEN -1 ELSE 1
        g == GCD(Abs(n), Abs(d))
    IN  <<(s * n) \div g, (s * d) \div g>>

RZero == <<0, 1>>
ROne == <<1, 1>>
RInt(n) == <<n, 1>>
RAdd(x, y) ==
    LET g == GCD(x[2], y[2])
    IN  R(x[1] * (y[2] \div g) + y[1] * (x[2] \div g), x[2] * (y[2] \div g))
RNeg(x) == <<-x[1], x[2]>>
RSub(x, y) == RAdd(x, RNeg(y))
RMul(x, y) ==
    LET g1 == GCD(Abs(x[1]), y[2])
        g2 == GCD(Abs(y[1]), x[2])
    IN  R((x[1] \div g1) * (y[1] \div g2), (x[2] \div g2) * (y[2] \div g1))
RDiv(x, y) == RMul(x, IF y[1] < 0 THEN <<-y[2], -y[1]>> ELSE <<y[2], y[1]>>)
RSign(x) == IF x[1] > 0 THEN 1 ELSE IF x[1] < 0 THEN -1 ELSE 0
\* order of a/b and c/d (b, d > 0) as -1, 0 or 1, by integer parts and then
\* the reciprocals of the fractional parts (no product is formed)
RECURSIVE FracCmp(_, _, _, _)
FracCmp(a, b, c, d) ==
    IF a \div b < c \div d THEN -1
    ELSE IF a \div b > c \div d THEN 1
    ELSE IF a % b = 0 /\ c % d = 0 THEN 0
    ELSE IF a % b = 0 THEN -1
    ELSE IF c % d = 0 THEN 1
    ELSE FracCmp(d, c % d, b, a % b)

RLt(x, y) == FracCmp(x[1], x[2], y[1], y[2]) < 0
RLe(x, y) == FracCmp(x[1], x[2], y[1], y[2]) <= 0
RMin(x, y) == IF RLt(y, x) THEN y ELSE x

(***************************************************************************)
(* Floating-point values: NaN, +inf, -inf, or the finite a + b*sqrt(r).    *)
(* Two finite values that meet in one operation share the radicand r (in   *)
(* every computation of the code r is the variance of the one series).     *)
(***************************************************************************)
NaN == [k |-> "nan", a |-> RZero, b |-> RZero, r |-> RZero]
Inf == [k |-> "inf", a |-> RZero, b |-> RZero, r |-> RZero]
NegInf == [k |-> "ninf", a |-> RZero, b |-> RZero, r |-> RZero]

Fin(a, b, r) ==
    IF b = RZero \/ r = RZero
    THEN [k |-> "fin", a |-> a, b |-> RZero, r |-> RZero]
    ELSE [k |-> "fin", a |-> a, b |-> b, r |-> r]

Num(q) == Fin(q, RZero, RZero)
IsNaN(x) == x.k = "nan"
IsFinite(x) == x.k = "fin"
Radicand(x, y) == IF x.b # RZero THEN x.r ELSE y.r

\* sign of the finite value a + b*sqrt(r).  When a and b have opposite signs,
\* |a| against |b|*sqrt(r) is q = |a/b| against sqrt(r), that is q against
\* r/q (no square is formed)
FinSign(x) ==
    LET sa == RSign(x.a)
        sb == RSign(x.b)
        ab == RDiv(x.a, x.b)
        q == <<Abs(ab[1]), ab[2]>>
        rq == RDiv(x.r, q)
    IN  IF sb = 0 THEN sa
        ELSE IF sa = 0 \/ sa = sb THEN sb
        ELSE IF RLt(rq, q) THEN sa
        ELSE IF RLt(q, rq) THEN sb
        ELSE 0

NumSign(x) ==
    CASE x.k = "inf" -> 1
      [] x.k = "ninf" -> -1
      [] OTHER -> FinSign(x)

NumNeg(x) ==
    CASE x.k = "nan" -> NaN
      [] x.k = "inf" -> NegInf
      [] x.k = "ninf" -> Inf
      [] OTHER -> Fin(RNeg(x.a), RNeg(x.b), x.r)

NumAdd(x, y) ==
    CASE x.k = "nan" \/ y.k = "nan" -> NaN
      [] x.k = "inf" -> IF y.k = "ninf" THEN NaN ELSE Inf
      [] x.k = "ninf" -> IF y.k = "inf" THEN NaN ELSE NegInf
      [] y.k \in {"inf", "ninf"} -> y
      [] OTHER -> Fin(RAdd(x.a, y.a), RAdd(x.b, y.b), Radicand(x, y))

NumSub(x, y) == NumAdd(x, NumNeg(y))

NumMul(x, y) ==
    CASE x.k = "nan" \/ y.k = "nan" -> NaN
      [] x.k # "fin" \/ y.k # "fin" ->
            LET s == NumSign(x) * NumSign(y)
            IN  IF s = 0 THEN NaN ELSE IF s > 0 THEN Inf ELSE NegInf
      [] OTHER ->
            LET r == Radicand(x, y)
            IN  Fin(RAdd(RMul(x.a, y.a), RMul(RMul(x.b, y.b), r)),
                    RAdd(RMul(x.a, y.b), RMul(x.b, y.a)), r)

\* numpy float64 division: x/0 is nan, +inf or -inf, never an exception
NumDiv(x, y) ==
    CASE x.k = "nan" \/ y.k = "nan" -> NaN
      [] x.k # "fin" ->
            IF y.k # "fin" THEN NaN
            ELSE IF (NumSign(x) > 0) = (FinSign(y) >= 0) THEN Inf ELSE NegInf
      [] y.k # "fin" -> Num(RZero)
      [] FinSign(y) = 0 ->
            IF FinSign(x) = 0 THEN NaN
            ELSE IF FinSign(x) > 0 THEN Inf ELSE NegInf
      [] OTHER ->
            LET r == Radicand(x, y)
                den == RSub(RMul(y.a, y.a), RMul(RMul(y.b, y.b), r))
                conj == Fin(y.a, RNeg(y.b), r)
                p == NumMul(x, conj)
            IN  Fin(RDiv(p.a, den), RDiv(p.b, den), r)

\* comparisons: every comparison with NaN is False
NumLt(x, y) ==
    CASE x.k = "nan" \/ y.k = "nan" -> FALSE
      [] x.k = "inf" -> FALSE
      [] y.k = "ninf" -> FALSE
      [] x.k = "ninf" -> TRUE
      [] y.k = "inf" -> TRUE
      [] OTHER -> FinSign(NumSub(x, y)) < 0

NumGt(x, y) == NumLt(y, x)

NumEq(x, y) ==
    CASE x.k = "nan" \/ y.k = "nan" -> FALSE
      [] x.k # "fin" \/ y.k # "fin" -> x.k = y.k
      [] OTHER -> FinSign(NumSub(x, y)) = 0

\* integer square root (floor), by bisection on lo..hi
RECURSIVE ISqrtIn(_, _, _)
ISqrtIn(n, lo, hi) ==
    IF lo >= hi THEN lo
    ELSE LET mid == (lo + hi + 1) \div 2
         IN  IF mid <= n \div mid THEN ISqrtIn(n, mid, hi) ELSE ISqrtIn(n, lo, mid - 1)

ISqrt(n) == IF n <= 0 THEN 0 ELSE ISqrtIn(n, 1, IF n > 46340 THEN 46340 ELSE n)
IsSquare(n) == n >= 0 /\ ISqrt(n) * ISqrt(n) = n

\* numpy sqrt of a rational: the rational root when there is one, else the surd
NumSqrt(x) ==
    IF x.k = "nan" \/ x.k = "ninf" THEN NaN
    ELSE IF x.k = "inf" THEN Inf
    ELSE IF RSign(x.a) < 0 THEN NaN
    ELSE IF IsSquare(x.a[1]) /\ IsSquare(x.a[2])
         THEN Num(<<ISqrt(x.a[1]), ISqrt(x.a[2])>>)
         ELSE Fin(RZero, ROne, x.a)

\* Python's builtin min(a, b): b if b < a, else a
PyMin(x, y) == IF NumLt(y, x) THEN y ELSE x


(***************************************************************************)
(* The data frame column under analysis: rows of (Batch ID, value), in     *)
(* batch order.  Batch IDs are B0100, B0101, ... (the number is kept).     *)
(***************************************************************************)
BatchId(i) == 99 + i
MkDf(vals) == [i \in 1..Len(vals) |-> [id |-> BatchId(i), value |-> vals[i]]]
Values(df) == [i \in 1..Len(df) |-> Num(df[i].value)]

\* Intermediate results are bound once, as the code's local variables are:
\* "CHOOSE r \in {e(v) : v \in {x}} : TRUE" evaluates x once, binds it to v
\* and yields e(v).

\* sum of xs[lo..hi], by halves (numpy sums pairwise; the exact sum does not
\* depend on the order)
RECURSIVE NumSumRange(_, _, _)
NumSumRange(xs, lo, hi) ==
    IF lo > hi THEN Num(RZero)
    ELSE IF lo = hi THEN xs[lo]
    ELSE CHOOSE r \in
            {NumAdd(left, right) :
                left \in {NumSumRange(xs, lo, (lo + hi) \div 2)},
                right \in {NumSumRange(xs, (lo + hi) \div 2 + 1, hi)}} : TRUE

NumSum(xs) == CHOOSE r \in {NumSumRange(t, 1, Len(t)) : t \in {xs}} : TRUE

\* pandas Series.mean(): sum / count, NaN for an empty series
SeriesMean(xs) ==
    IF Len(xs) = 0 THEN NaN
    ELSE CHOOSE r \in {NumDiv(total, Num(RInt(Len(xs)))) : total \in {NumSum(xs)}} : TRUE

\* the squared deviations (x - mean)^2 of a series
SqDev(xs, mean) ==
    [i \in 1..Len(xs) |->
        CHOOSE r \in {NumMul(d, d) : d \in {NumSub(xs[i], mean)}} : TRUE]

\* Series.std() with the population denominator N
SeriesStd_population(xs) ==
    IF Len(xs) <= 1 THEN NaN
    ELSE CHOOSE r \in
            {NumSqrt(var) : var \in
                {NumDiv(ssd, Num(RInt(Len(xs)))) : ssd \in
                    {NumSum(SqDev(xs, mean)) : mean \in {SeriesMean(xs)}}}} : TRUE

\* pandas Series.std() (ddof = 1): sqrt(sum((x - mean)^2) / (count - 1)),
\* NaN when count <= 1
SeriesStd(xs) ==
    IF Len(xs) <= 1 THEN NaN
    ELSE CHOOSE r \in
            {NumSqrt(var) : var \in
                {NumDiv(ssd, Num(RInt(Len(xs) - 1))) : ssd \in
                    {NumSum(SqDev(xs, mean)) : mean \in {SeriesMean(xs)}}}} : TRUE

Three == Num(RInt(3))

\* length of the run the Nelson rule of the I-chart example speaks of
NelsonRun == 8

\* Python's max(a, b): b if b > a, else a
PyMax(x, y) == IF NumLt(x, y) THEN y ELSE x

\* calculate_ppk taking the larger of the two one-sided indices
ppk_of_max(mean, std_dev, usl, lsl) ==
    IF NumEq(std_dev, Num(RZero)) THEN Inf
    ELSE CHOOSE r \in
            {PyMax(ppu, ppl) :
                ppu \in {NumDiv(NumSub(usl, mean), NumMul(Three, std_dev))},
                ppl \in {NumDiv(NumSub(mean, lsl), NumMul(Three, std_dev))}} : TRUE

\* calculate_ppk without the zero-variance guard
ppk_of_unguarded(mean, std_dev, usl, lsl) ==
    CHOOSE r \in
        {PyMin(ppu, ppl) :
            ppu \in {NumDiv(NumSub(usl, mean), NumMul(Three, std_dev))},
            ppl \in {NumDiv(NumSub(mean, lsl), NumMul(Three, std_dev))}} : TRUE

\* calculate_ppk with the lower index taken from the wrong side
ppk_of_flipped(mean, std_dev, usl, lsl) ==
    IF NumEq(std_dev, Num(RZero)) THEN Inf
    ELSE CHOOSE r \in
            {PyMin(ppu, ppl) :
                ppu \in {NumDiv(NumSub(usl, mean), NumMul(Three, std_dev))},
                ppl \in {NumDiv(NumSub(lsl, mean), NumMul(Three, std_dev))}} : TRUE

\* the spread index (usl - lsl) / (6 std_dev) in place of min(ppu, ppl)
ppk_of_spread(mean, std_dev, usl, lsl) ==
    IF NumEq(std_dev, Num(RZero)) THEN Inf
    ELSE NumDiv(NumSub(usl, lsl), NumMul(Num(RInt(6)), std_dev))

\* a zero-variance guard that looks at the limits: infinity only when the
\* constant value is inside the window
ppk_of_window_checked(mean, std_dev, usl, lsl) ==
    IF NumEq(std_dev, Num(RZero))
    THEN IF NumGt(mean, usl) \/ NumLt(mean, lsl) THEN NegInf ELSE Inf
    ELSE CHOOSE r \in
            {PyMin(ppu, ppl) :
                ppu \in {NumDiv(NumSub(usl, mean), NumMul(Three, std_dev))},
                ppl \in {NumDiv(NumSub(mean, lsl), NumMul(Three, std_dev))}} : TRUE

\* the one-sided indices taken in absolute value
ppk_of_abs(mean, std_dev, usl, lsl) ==
    IF NumEq(std_dev, Num(RZero)) THEN Inf
    ELSE CHOOSE r \in
            {PyMin(IF NumSign(ppu) < 0 THEN NumNeg(ppu) ELSE ppu,
                   IF NumSign(ppl) < 0 THEN NumNeg(ppl) ELSE ppl) :
                ppu \in {NumDiv(NumSub(usl, mean), NumMul(Three, std_dev))},
                ppl \in {NumDiv(NumSub(mean, lsl), NumMul(Three, std_dev))}} : TRUE

\* calculate_ppk, after mean and std_dev are computed
ppk_of(mean, std_dev, usl, lsl) ==
    IF NumEq(std_dev, Num(RZero)) THEN Inf
    ELSE CHOOSE r \in
            {PyMin(ppu, ppl) :
                ppu \in {NumDiv(NumSub(usl, mean), NumMul(Three, std_dev))},
                ppl \in {NumDiv(NumSub(mean, lsl), NumMul(Three, std_dev))}} : TRUE

\* calculate_ppk(data_series, usl, lsl)
calculate_ppk(data_series, usl, lsl) ==
    CHOOSE r \in
        {ppk_of(mean, std_dev, usl, lsl) :
            mean \in {SeriesMean(data_series)},
            std_dev \in {SeriesStd(data_series)}} : TRUE

\* marking with non-strict comparisons
out_of_control_inclusive(df, ucl, lcl) ==
    SelectSeq(df, LAMBDA row : ~NumLt(Num(row.value), ucl) \/ ~NumGt(Num(row.value), lcl))

\* marking the high rows first and the low rows after them
out_of_control_split(df, ucl, lcl) ==
    SelectSeq(df, LAMBDA row : NumGt(Num(row.value), ucl))
        \o SelectSeq(df, LAMBDA row : NumLt(Num(row.value), lcl))

\* marking with a run rule added: a row is also marked when it ends a run of
\* NelsonRun rows on one side of the centre line
out_of_control_runrule(df, ucl, lcl) ==
    LET centre == NumDiv(NumAdd(ucl, lcl), Num(RInt(2)))
        Below(j) == NumLt(Num(df[j].value), centre)
        Above(j) == NumGt(Num(df[j].value), centre)
        EndsRun(i) ==
            /\ i >= NelsonRun
            /\ \/ \A j \in (i - NelsonRun + 1)..i : Below(j)
               \/ \A j \in (i - NelsonRun + 1)..i : Above(j)
    IN  SelectSeq(df, LAMBDA row :
            \/ NumGt(Num(row.value), ucl)
            \/ NumLt(Num(row.value), lcl)
            \/ EndsRun(row.id - BatchId(0)))

\* the rows create_control_chart marks as out of control
out_of_control(df, ucl, lcl) ==
    SelectSeq(df, LAMBDA row : NumGt(Num(row.value), ucl) \/ NumLt(Num(row.value), lcl))

\* limits with the lower one at 2 standard deviations
chart_of_skewed(df, mean, std) ==
    CHOOSE r \in
        {[mean |-> mean, std |-> std, ucl |-> ucl, lcl |-> lcl,
          ooc |-> out_of_control(df, ucl, lcl)] :
            ucl \in {NumAdd(mean, NumMul(Three, std))},
            lcl \in {NumSub(mean, NumMul(Num(RInt(2)), std))}} : TRUE

\* limits with the lower one floored at zero
chart_of_floored(df, mean, std) ==
    CHOOSE r \in
        {[mean |-> mean, std |-> std, ucl |-> ucl, lcl |-> lcl,
          ooc |-> out_of_control(df, ucl, lcl)] :
            ucl \in {NumAdd(mean, NumMul(Three, std))},
            lcl \in {PyMax(Num(RZero), NumSub(mean, NumMul(Three, std)))}} : TRUE

\* warning limits (2 standard deviations) in place of control limits
chart_of_two_sigma(df, mean, std) ==
    CHOOSE r \in
        {[mean |-> mean, std |-> std, ucl |-> ucl, lcl |-> lcl,
          ooc |-> out_of_control(df, ucl, lcl)] :
            ucl \in {NumAdd(mean, NumMul(Num(RInt(2)), std))},
            lcl \in {NumSub(mean, NumMul(Num(RInt(2)), std))}} : TRUE

\* limits with the two signs exchanged
chart_of_swapped(df, mean, std) ==
    CHOOSE r \in
        {[mean |-> mean, std |-> std, ucl |-> ucl, lcl |-> lcl,
          ooc |-> out_of_control(df, ucl, lcl)] :
            ucl \in {NumSub(mean, NumMul(Three, std))},
            lcl \in {NumAdd(mean, NumMul(Three, std))}} : TRUE

\* create_control_chart, after mean and the standard deviation are computed
chart_of(df, mean, std) ==
    CHOOSE r \in
        {[mean |-> mean, std |-> std, ucl |-> ucl, lcl |-> lcl,
          ooc |-> out_of_control(df, ucl, lcl)] :
            ucl \in {NumAdd(mean, NumMul(Three, std))},
            lcl \in {NumSub(mean, NumMul(Three, std))}} : TRUE

\* limits taken from a reference period (all batches but the latest)
create_control_chart_reference(df) ==
    CHOOSE r \in
        {chart_of(df, mean, std) :
            mean \in {SeriesMean(Values(SubSeq(df, 1, Len(df) - 1)))},
            std \in {SeriesStd(Values(SubSeq(df, 1, Len(df) - 1)))}} : TRUE

\* create_control_chart(df, parameter, color): the centre line, the limits and
\* the marked rows of the figure
create_control_chart(df) ==
    CHOOSE r \in
        {chart_of(df, mean, std) :
            mean \in {SeriesMean(Values(df))},
            std \in {SeriesStd(Values(df))}} : TRUE

\* the I-MR example of the analytics page: Series.diff().abs() without its
\* leading NaN, which mean() and std() skip
moving_range(values) ==
    [i \in 1..(Len(values) - 1) |->
        IF NumLt(values[i + 1], values[i])
        THEN NumSub(values[i], values[i + 1])
        ELSE NumSub(values[i + 1], values[i])]

\* I-chart limits taken with the population standard deviation
i_chart_population(values) ==
    CHOOSE r \in
        {[mean |-> i_mean, std |-> std,
          ucl |-> NumAdd(i_mean, NumMul(Three, std)),
          lcl |-> NumSub(i_mean, NumMul(Three, std)),
          ooc |-> <<>>] :
            i_mean \in {SeriesMean(values)},
            std \in {SeriesStd_population(values)}} : TRUE

\* i_mean, i_ucl, i_lcl of the I-chart (std: the value of i_df['value'].std());
\* the example marks no point
i_chart(values) ==
    CHOOSE r \in
        {[mean |-> i_mean, std |-> std,
          ucl |-> NumAdd(i_mean, NumMul(Three, std)),
          lcl |-> NumSub(i_mean, NumMul(Three, std)),
          ooc |-> <<>>] :
            i_mean \in {SeriesMean(values)},
            std \in {SeriesStd(values)}} : TRUE

\* mr_mean and mr_ucl of the MR chart
mr_chart(values) ==
    CHOOSE r \in
        {[mean |-> mr_mean, ucl |-> NumAdd(mr_mean, NumMul(Three, std))] :
            mr_mean \in {SeriesMean(moving_range(values))},
            std \in {SeriesStd(moving_range(values))}} : TRUE

\* flow_threshold = flow_initial * 0.8, with flow_initial the first row's flow
flow_threshold(viral) == RMul(viral[1].flow, R(8, 10))

\* the rows at or below the threshold
below_threshold_inclusive(viral) ==
    SelectSeq(viral, LAMBDA row : RLe(row.flow, flow_threshold(viral)))

\* viral_df[viral_df['Flow Rate (L/hr)'] < flow_threshold]
below_threshold(viral) ==
    SelectSeq(viral, LAMBDA row : RLt(row.flow, flow_threshold(viral)))

\* classification with the lower threshold compared non-strictly
Classify_inclusive(ppk) ==
    IF ~NumGt(ppk, Num(ROne)) THEN "NOT_CAPABLE"
    ELSE IF NumLt(ppk, Num(R(133, 100))) THEN "MARGINAL"
    ELSE "CAPABLE"

\* drill-down classification of a Ppk value
Classify(ppk) ==
    IF NumLt(ppk, Num(ROne)) THEN "NOT_CAPABLE"
    ELSE IF NumLt(ppk, Num(R(133, 100))) THEN "MARGINAL"
    ELSE "CAPABLE"


(***************************************************************************)
(* The control strategy of the page: the parameters offered for analysis   *)
(* and their specification limits.                                         *)
(***************************************************************************)
None == [k |-> "none", a |-> RZero, b |-> RZero, r |-> RZero]

\* the mapping spec_limits: parameter -> (lsl, usl)
spec_limits ==
    [p \in {"CQA - Purity (%)", "CQA - Step Yield (%)",
            "CPP - IEX Pool Conductivity (mS/cm)", "CPP - IEX Load Density (g/L)",
            "CPP - Elution Buffer pH", "CMA - Resin Age (cycles)"} |->
        CASE p = "CQA - Purity (%)" -> <<Num(R(975, 10)), Num(RInt(100))>>
          [] p = "CQA - Step Yield (%)" -> <<Num(RInt(85)), Num(RInt(100))>>
          [] p = "CPP - IEX Pool Conductivity (mS/cm)" -> <<Num(RInt(14)), Num(R(165, 10))>>
          [] p = "CPP - IEX Load Density (g/L)" -> <<Num(RInt(23)), Num(RInt(28))>>
          [] p = "CPP - Elution Buffer pH" -> <<Num(R(64, 10)), Num(R(66, 10))>>
          [] p = "CMA - Resin Age (cycles)" -> <<Num(RInt(0)), Num(RInt(250))>>]

\* a lookup that defaults to the limits (0, 0)
spec_limits_get_zero(selected_param) ==
    IF selected_param \in DOMAIN spec_limits
    THEN spec_limits[selected_param]
    ELSE <<Num(RZero), Num(RZero)>>

\* spec_limits.get(selected_param, (None, None))
spec_limits_get(selected_param) ==
    IF selected_param \in DOMAIN spec_limits
    THEN spec_limits[selected_param]
    ELSE <<None, None>>

\* the numeric columns a data frame of the repository offers to the select box:
\* the six of generate_full_cpv_data, which all have an entry in spec_limits,
\* and 'Concentration Factor' of utils.generate_cpv_data, which has none
numeric_params == DOMAIN spec_limits \cup {"Concentration Factor"}

\* the two CQAs of the overview, with the limits written at their call sites
overview_limits ==
    [p \in {"CQA - Purity (%)", "CQA - Step Yield (%)"} |->
        IF p = "CQA - Purity (%)"
        THEN <<Num(R(975, 10)), Num(RInt(100))>>
        ELSE <<Num(RInt(85)), Num(RInt(100))>>]

(***************************************************************************)
(* Inputs.  The page draws its data from a generator; the model takes the  *)
(* column as an input from these families.                                 *)
(***************************************************************************)
IntSeq(f) == [i \in DOMAIN f |-> RInt(f[i])]

\* every series of 0..MaxLen values in 0..MaxVal
ShortSeries == UNION {{IntSeq(f) : f \in [1..n -> 0..MaxVal]} : n \in 0..MaxLen}

\* RunLen-1 or RunLen batches at 0 with a special-cause batch at +/-1 among
\* the first MaxSpikePos and possibly a second one at batch RunLen-1
Spiked(n, p1, v1, p2, v2) ==
    [i \in 1..n |-> IF i = p1 THEN RInt(v1) ELSE IF i = p2 THEN RInt(v2) ELSE RZero]

SpikedSeries ==
    UNION {{Spiked(n, p1, v1, p2, v2) :
                n \in (RunLen - 1)..RunLen, p2 \in {p1, RunLen - 1},
                v1 \in {-1, 1}, v2 \in {-1, 1}} : p1 \in 1..MaxSpikePos}

\* three batches mu-1, mu, mu+1 (standard deviation 1) just above the lower
\* Resin Age limit 0: the drill-down index is mu / 3
Around(mu) == <<RSub(mu, ROne), mu, RAdd(mu, ROne)>>
AroundSeries == {Around(mu) : mu \in {RInt(2), RInt(3), R(399, 100), RInt(5)}}

\* 2..MaxOutlierLen batches at 10 with the first or the latest one apart, at
\* 30 or at -10
Outlier(n, p, v) == [i \in 1..n |-> IF i = p THEN RInt(v) ELSE RInt(10)]
OutlierSeries ==
    UNION {{Outlier(n, p, v) : p \in {1, n}, v \in {-10, 30}} : n \in 2..MaxOutlierLen}

\* np.linspace(start, stop, num): num evenly spaced values, both ends included
Linspace(start, stop, num) ==
    [i \in 1..num |-> RAdd(RInt(start), R((stop - start) * (i - 1), num - 1))]

\* the resin age column, np.linspace(1, 200, n_batches), for campaigns of 5,
\* 10, 25 and n_batches = 50 batches
DriftSeries == {Linspace(1, 200, n) : n \in {5, 10, 25, 50}}

\* three batches mu-1, mu, mu+1 just above the lower Step Yield limit 85: the
\* index is (mu - 85) / 3
YieldSeries == {Around(mu) : mu \in {RInt(88), R(8899, 100), RInt(90)}}

\* flow rates of the filtration study, clipped by the generator to
\* 0..initial_flow = 200; 160 is 80% of 200
FlowValues == {0, 100, 160, 200}

\* generate_viral_filtration_data: rows of (throughput, flow rate) with the
\* throughput np.linspace(0, 1000, n)
MkViral(flows) ==
    [i \in 1..Len(flows) |->
        [throughput |-> Linspace(0, 1000, Len(flows))[i], flow |-> RInt(flows[i])]]

FlowSeries == UNION {[1..n -> FlowValues] : n \in 2..MaxFlowLen}

\* specification limits handed to calculate_ppk
SpecValues == {RInt(-3), RInt(-2), RInt(1), RInt(4), RInt(5)}

(***************************************************************************)
(* State.                                                                  *)
(***************************************************************************)
VARIABLES
    df,        \* the column under analysis, rows of (id, value)
    pc,        \* "ready": script about to run an analysis; "done": it has run
    op,        \* the analysis that ran
    param,     \* the parameter selected in the drill-down or overview
    lsl, usl,  \* the specification limits used
    chart,     \* result of create_control_chart
    ppk,       \* result of calculate_ppk
    cls,       \* classification shown by the drill-down
    notice,    \* message shown instead of / beside the index
    raised,    \* exception raised by the analysis
    mr,        \* moving-range results of the I-MR example (analytics page)
    viral_df,  \* flow rates of the viral filtration study, by throughput
    capacity_point  \* the row the characterization page marks as capacity limit

vars == <<df, pc, op, param, lsl, usl, chart, ppk, cls, notice, raised,
          mr, viral_df, capacity_point>>

\* results of the other pages, which the CPV page does not touch
other_pages == <<mr, viral_df, capacity_point>>

NoMR == [mean |-> None, ucl |-> None]
NoPoint == [throughput |-> None, flow |-> None]

NoChart == [mean |-> None, std |-> None, ucl |-> None, lcl |-> None, ooc |-> <<>>]

Init ==
    /\ \/ \E v \in ShortSeries : df = MkDf(v)
       \/ \E v \in SpikedSeries : df = MkDf(v)
       \/ \E v \in AroundSeries : df = MkDf(v)
       \/ \E v \in OutlierSeries : df = MkDf(v)
       \/ \E v \in YieldSeries : df = MkDf(v)
    /\ pc = "ready"
    /\ op = "none"
    /\ param = "none"
    /\ lsl = None
    /\ usl = None
    /\ chart = NoChart
    /\ ppk = None
    /\ cls = "none"
    /\ notice = "none"
    /\ raised = "none"
    /\ mr = NoMR
    /\ viral_df = <<>>
    /\ capacity_point = NoPoint

\* the page run on the resin age column of a campaign
InitDrift ==
    /\ \E v \in DriftSeries : df = MkDf(v)
    /\ pc = "ready"
    /\ op = "none"
    /\ param = "none"
    /\ lsl = None
    /\ usl = None
    /\ chart = NoChart
    /\ ppk = None
    /\ cls = "none"
    /\ notice = "none"
    /\ raised = "none"
    /\ mr = NoMR
    /\ viral_df = <<>>
    /\ capacity_point = NoPoint

\* a chart call that drops the rows it marks from the frame it was given
ControlChart_dropping ==
    /\ pc = "ready"
    /\ pc' = "done"
    /\ op' = "create_control_chart"
    /\ chart' = create_control_chart(df)
    /\ df' = SelectSeq(df, LAMBDA row : \A j \in 1..Len(chart'.ooc) : chart'.ooc[j] # row)
    /\ raised' = "none"
    /\ UNCHANGED <<param, lsl, usl, ppk, cls, notice>>
    /\ UNCHANGED other_pages

\* a call of create_control_chart on the column (CPP charts of the overview)
ControlChart ==
    /\ pc = "ready"
    /\ pc' = "done"
    /\ op' = "create_control_chart"
    /\ chart' = create_control_chart(df)
    /\ raised' = "none"
    /\ UNCHANGED <<df, param, lsl, usl, ppk, cls, notice>>
    /\ UNCHANGED other_pages

\* a call of calculate_ppk on the column with limits u, l
CalculatePpk(u, l) ==
    /\ pc = "ready"
    /\ pc' = "done"
    /\ op' = "calculate_ppk"
    /\ usl' = Num(u)
    /\ lsl' = Num(l)
    /\ ppk' = calculate_ppk(Values(df), Num(u), Num(l))
    /\ raised' = "none"
    /\ UNCHANGED <<df, param, chart, cls, notice>>
    /\ UNCHANGED other_pages

\* an overview that warns up to and including 1.33
Overview_inclusive(p) ==
    /\ pc = "ready"
    /\ pc' = "done"
    /\ op' = "overview"
    /\ param' = p
    /\ lsl' = overview_limits[p][1]
    /\ usl' = overview_limits[p][2]
    /\ ppk' = calculate_ppk(Values(df), overview_limits[p][2], overview_limits[p][1])
    /\ notice' = IF ~NumGt(ppk', Num(R(133, 100))) THEN "warning" ELSE "none"
    /\ chart' = create_control_chart(df)
    /\ raised' = "none"
    /\ UNCHANGED <<df, cls>>
    /\ UNCHANGED other_pages

\* overview of a CQA: index, warning, control chart
Overview(p) ==
    /\ pc = "ready"
    /\ pc' = "done"
    /\ op' = "overview"
    /\ param' = p
    /\ lsl' = overview_limits[p][1]
    /\ usl' = overview_limits[p][2]
    /\ ppk' = calculate_ppk(Values(df), overview_limits[p][2], overview_limits[p][1])
    /\ notice' = IF NumLt(ppk', Num(R(133, 100))) THEN "warning" ELSE "none"
    /\ chart' = create_control_chart(df)
    /\ raised' = "none"
    /\ UNCHANGED <<df, cls>>
    /\ UNCHANGED other_pages

\* a drill-down that tests the lower limit for truth ("if lsl:"), so that a
\* limit of 0 counts as absent
DrillDown_truthy(selected_param) ==
    LET lims == spec_limits_get(selected_param)
    IN  /\ pc = "ready"
        /\ pc' = "done"
        /\ op' = "drill_down"
        /\ param' = selected_param
        /\ lsl' = lims[1]
        /\ usl' = lims[2]
        /\ chart' = create_control_chart(df)
        /\ IF lims[1] # None /\ lims[1] # Num(RZero)
           THEN /\ ppk' = calculate_ppk(Values(df), lims[2], lims[1])
                /\ cls' = Classify(ppk')
                /\ notice' = "none"
           ELSE /\ ppk' = None
                /\ cls' = "none"
                /\ notice' = "info"
        /\ raised' = "none"
        /\ UNCHANGED df
        /\ UNCHANGED other_pages

\* drill-down of the selected parameter: control chart, then capability when
\* the parameter has specification limits, else an informational message
DrillDown(selected_param) ==
    LET lims == spec_limits_get(selected_param)
    IN  /\ pc = "ready"
        /\ pc' = "done"
        /\ op' = "drill_down"
        /\ param' = selected_param
        /\ lsl' = lims[1]
        /\ usl' = lims[2]
        /\ chart' = create_control_chart(df)
        /\ IF lims[1] # None
           THEN /\ ppk' = calculate_ppk(Values(df), lims[2], lims[1])
                /\ cls' = Classify(ppk')
                /\ notice' = "none"
           ELSE /\ ppk' = None
                /\ cls' = "none"
                /\ notice' = "info"
        /\ raised' = "none"
        /\ UNCHANGED df
        /\ UNCHANGED other_pages

\* the I-MR example of the analytics page, run on the column
IChart ==
    /\ pc = "ready"
    /\ pc' = "done"
    /\ op' = "i_chart"
    /\ chart' = i_chart(Values(df))
    /\ mr' = mr_chart(Values(df))
    /\ raised' = "none"
    /\ UNCHANGED <<df, param, lsl, usl, ppk, cls, notice, viral_df, capacity_point>>

\* the characterization page on a filtration study
InitViral ==
    /\ \E flows \in FlowSeries : viral_df = MkViral(flows)
    /\ df = <<>>
    /\ pc = "ready"
    /\ op = "none"
    /\ param = "none"
    /\ lsl = None
    /\ usl = None
    /\ chart = NoChart
    /\ ppk = None
    /\ cls = "none"
    /\ notice = "none"
    /\ raised = "none"
    /\ mr = NoMR
    /\ capacity_point = NoPoint

\* capacity_point = (rows below the threshold).iloc[0]; .iloc[0] of an empty
\* frame raises IndexError
CapacityPoint ==
    /\ pc = "ready"
    /\ pc' = "done"
    /\ op' = "capacity_point"
    /\ IF below_threshold(viral_df) = <<>>
       THEN /\ raised' = "IndexError"
            /\ capacity_point' = NoPoint
       ELSE /\ raised' = "none"
            /\ capacity_point' =
                    [throughput |-> Num(below_threshold(viral_df)[1].throughput),
                     flow |-> Num(below_threshold(viral_df)[1].flow)]
    /\ UNCHANGED <<df, param, lsl, usl, chart, ppk, cls, notice, mr, viral_df>>

\* the script runs again on the next interaction
Rerun ==
    /\ pc = "done"
    /\ pc' = "ready"
    /\ op' = "none"
    /\ param' = "none"
    /\ lsl' = None
    /\ usl' = None
    /\ chart' = NoChart
    /\ ppk' = None
    /\ cls' = "none"
    /\ notice' = "none"
    /\ raised' = "none"
    /\ mr' = NoMR
    /\ capacity_point' = NoPoint
    /\ UNCHANGED <<df, viral_df>>

Next ==
    \/ ControlChart
    \/ \E u \in SpecValues, l \in SpecValues : CalculatePpk(u, l)
    \/ \E p \in DOMAIN overview_limits : Overview(p)
    \/ \E p \in numeric_params : DrillDown(p)
    \/ IChart
    \/ Rerun

Spec == Init /\ [][Next]_vars

SpecDrift == InitDrift /\ [][Next]_vars

NextViral ==
    \/ CapacityPoint
    \/ Rerun

SpecViral == InitViral /\ [][NextViral]_vars


(***************************************************************************)
(* Reference quantities, computed from the raw values in rationals by the  *)
(* textbook formulas (not by the operators above).                         *)
(***************************************************************************)
N == Len(df)

RECURSIVE RatSum(_, _, _)
RatSum(f, lo, hi) ==
    IF lo > hi THEN RZero
    ELSE IF lo = hi THEN f[lo]
    ELSE RAdd(RatSum(f, lo, (lo + hi) \div 2), RatSum(f, (lo + hi) \div 2 + 1, hi))

SumX == RatSum([i \in 1..N |-> df[i].value], 1, N)
SumXX == RatSum([i \in 1..N |-> RMul(df[i].value, df[i].value)], 1, N)
RefMean == RDiv(SumX, RInt(N))
\* sample variance: (sum x^2 - (sum x)^2 / N) / (N - 1)
RefVar == RDiv(RSub(SumXX, RDiv(RMul(SumX, SumX), RInt(N))), RInt(N - 1))

ChartDone == pc = "done" /\ op \in {"create_control_chart", "overview", "drill_down"}
PpkDone == pc = "done" /\ ppk # None
AllSame == \A i \in 1..N : df[i].value = df[1].value

\* C1: for a series of at least 2 measurements the chart's mean is the
\* arithmetic mean, its standard deviation is the non-negative root of the
\* sample variance (N-1 denominator), and the limits are mean +/- 3 standard
\* deviations.
C1_ControlLimits ==
    (ChartDone /\ N >= 2) =>
        /\ chart.mean = Num(RefMean)
        /\ IsFinite(chart.std) /\ NumSign(chart.std) >= 0
        /\ NumEq(NumMul(chart.std, chart.std), Num(RefVar))
        /\ NumEq(NumSub(chart.ucl, chart.mean), NumMul(Three, chart.std))
        /\ NumEq(NumSub(chart.mean, chart.lcl), NumMul(Three, chart.std))

C1_Witness ==
    /\ op = "create_control_chart" /\ N = 3
    /\ IsFinite(chart.std) /\ NumSign(chart.std) > 0
    /\ chart.std.b # RZero

Reported(i) == \E j \in 1..Len(chart.ooc) : chart.ooc[j] = df[i]

\* C2: a point is reported out of control iff its value is strictly above
\* the upper or strictly below the lower control limit; a point exactly on a
\* limit is not reported.
C2_StrictLimits ==
    ChartDone =>
        \A i \in 1..N :
            /\ Reported(i) <=> (NumGt(Num(df[i].value), chart.ucl)
                                \/ NumLt(Num(df[i].value), chart.lcl))
            /\ (NumEq(Num(df[i].value), chart.ucl) \/ NumEq(Num(df[i].value), chart.lcl))
                    => ~Reported(i)

C2_Witness ==
    /\ ChartDone
    /\ \E i \in 1..N : NumEq(Num(df[i].value), chart.ucl) /\ ~Reported(i)
    /\ \E i \in 1..N : NumEq(Num(df[i].value), chart.lcl) /\ ~Reported(i)

\* the smaller of the distances from the mean to the two specification limits
RefMargin == RMin(RSub(usl.a, RefMean), RSub(RefMean, lsl.a))

\* C3: with at least 2 measurements, non-zero standard deviation and
\* lsl <= usl, the index is min((usl - mean)/(3 sigma), (mean - lsl)/(3 sigma)):
\* it has the sign of the smaller margin and index^2 * 9 * variance = margin^2.
C3_IndexFormula ==
    (PpkDone /\ N >= 2 /\ ~AllSame /\ ~NumLt(usl, lsl)) =>
        /\ IsFinite(ppk)
        /\ NumSign(ppk) = RSign(RefMargin)
        /\ NumEq(NumMul(NumMul(ppk, ppk), Num(RMul(RInt(9), RefVar))),
                 Num(RMul(RefMargin, RefMargin)))

C3_Witness ==
    /\ op = "calculate_ppk" /\ N >= 2 /\ ~AllSame /\ NumLt(lsl, usl)
    /\ NumSign(ppk) > 0
    /\ RSub(usl.a, RefMean) # RSub(RefMean, lsl.a)

\* C4: every index that is a number has exactly the classification the fixed
\* thresholds give: below 1.0 NOT_CAPABLE, from 1.0 to below 1.33 MARGINAL,
\* 1.33 and above CAPABLE, whatever the series and the parameter.
C4_Classification ==
    (pc = "done" /\ op = "drill_down" /\ ppk # None /\ ~IsNaN(ppk)) =>
        /\ NumLt(ppk, Num(ROne)) <=> cls = "NOT_CAPABLE"
        /\ (~NumLt(ppk, Num(ROne)) /\ NumLt(ppk, Num(R(133, 100)))) <=> cls = "MARGINAL"
        /\ ~NumLt(ppk, Num(R(133, 100))) <=> cls = "CAPABLE"
        /\ NumEq(ppk, Num(ROne)) => cls = "MARGINAL"
        /\ NumEq(ppk, Num(R(133, 100))) => cls = "CAPABLE"

C4_Witness ==
    /\ op = "drill_down"
    /\ NumEq(ppk, Num(R(133, 100)))
    /\ cls = "CAPABLE"

\* C5: a series of N >= 2 identical values has standard deviation 0, index
\* positive infinity (a value, not an error) and classification CAPABLE.
C5_ZeroVariance ==
    (pc = "done" /\ N >= 2 /\ AllSame) =>
        /\ raised = "none"
        /\ ChartDone => NumEq(chart.std, Num(RZero))
        /\ ppk # None => ppk = Inf
        /\ (op = "drill_down" /\ ppk # None) => cls = "CAPABLE"

C5_Witness ==
    /\ op = "drill_down" /\ N >= 2 /\ AllSame
    /\ ppk = Inf /\ cls = "CAPABLE" /\ NumEq(chart.std, Num(RZero))

\* C6: a series of length 0 or 1 given to the control-limit or capability
\* computation fails with InsufficientDataError and yields no NaN result.
C6_InsufficientData ==
    (pc = "done" /\ N < 2) =>
        /\ raised = "InsufficientDataError"
        /\ ~IsNaN(ppk)
        /\ ~IsNaN(chart.mean) /\ ~IsNaN(chart.std)
        /\ ~IsNaN(chart.ucl) /\ ~IsNaN(chart.lcl)

\* C7: the capability computation with inverted limits (lsl > usl) fails with
\* InvalidSpecificationError and returns no index.
C7_InvertedLimits ==
    (pc = "done" /\ op = "calculate_ppk" /\ NumLt(usl, lsl)) =>
        /\ raised = "InvalidSpecificationError"
        /\ ppk = None

MissingLimits == param \notin DOMAIN spec_limits

Pos(row) == CHOOSE i \in 1..N : df[i] = row

\* C9: the reported points are a subsequence of the input: each is a row of
\* the input and they appear in the input's order, none twice.
C9_Subsequence ==
    ChartDone =>
        /\ \A j \in 1..Len(chart.ooc) : \E i \in 1..N : df[i] = chart.ooc[j]
        /\ \A j, k \in 1..Len(chart.ooc) : j < k => Pos(chart.ooc[j]) < Pos(chart.ooc[k])

C9_Witness ==
    /\ ChartDone
    /\ Len(chart.ooc) = 2
    /\ chart.ooc[1].value # chart.ooc[2].value

Rank(c) == CASE c = "NOT_CAPABLE" -> 0 [] c = "MARGINAL" -> 1 [] c = "CAPABLE" -> 2

\* the index of the current series for every window of SpecValues at least as
\* wide as the one used
WiderIndices ==
    UNION {{ppk_of(mean, std_dev, Num(u), Num(l)) :
                u \in {x \in SpecValues : ~NumLt(Num(x), usl)},
                l \in {x \in SpecValues : ~NumGt(Num(x), lsl)}} :
            <<mean, std_dev>> \in {<<SeriesMean(Values(df)), SeriesStd(Values(df))>>}}

\* C10: for a series with non-zero standard deviation, a wider specification
\* window never gives a smaller index nor a worse classification.
C10_WideningMonotone ==
    (pc = "done" /\ op = "calculate_ppk" /\ N >= 2 /\ ~AllSame) =>
        \A wide \in WiderIndices :
            /\ ~NumLt(wide, ppk)
            /\ Rank(Classify(wide)) >= Rank(Classify(ppk))

C10_Witness ==
    /\ pc = "done" /\ op = "calculate_ppk" /\ N >= 2 /\ ~AllSame
    /\ Classify(ppk) = "NOT_CAPABLE"
    /\ \E wide \in WiderIndices : Classify(wide) = "CAPABLE"

\* C11: in every computed chart the distance from the mean up to the upper
\* limit and the distance from the lower limit up to the mean are one and the
\* same value, 3 standard deviations (for fewer than 2 measurements the three
\* are NaN together); with at least 2 measurements it is a finite number.
C11_Symmetry ==
    ChartDone =>
        /\ NumSub(chart.ucl, chart.mean) = NumSub(chart.mean, chart.lcl)
        /\ NumSub(chart.ucl, chart.mean) = NumMul(Three, chart.std)
        /\ N >= 2 =>
            /\ IsFinite(NumSub(chart.ucl, chart.mean))
            /\ NumEq(NumSub(chart.ucl, chart.mean), NumSub(chart.mean, chart.lcl))
            /\ NumEq(NumSub(chart.mean, chart.lcl), NumMul(Three, chart.std))

C11_Witness ==
    /\ pc = "done" /\ op = "overview" /\ N >= 2
    /\ NumSign(chart.mean) > 0
    /\ NumLt(chart.lcl, chart.mean) /\ NumLt(chart.mean, chart.ucl)
    /\ NumSign(chart.lcl) < 0

\* the series of C13: nine batches at 10 followed by one at 30
NineTensAndThirty == [i \in 1..10 |-> IF i = 10 THEN RInt(30) ELSE RInt(10)]
ColumnValues == [i \in 1..N |-> df[i].value]

\* C13: for nine values 10 followed by one value 30 the mean is 12, the
\* sample variance is 40 (standard deviation between 6.32 and 6.33), the value
\* 30 is strictly inside the control limits and no point is reported.
C13_NineTensAndThirty ==
    (ChartDone /\ ColumnValues = NineTensAndThirty) =>
        /\ chart.mean = Num(RInt(12))
        /\ NumEq(NumMul(chart.std, chart.std), Num(RInt(40)))
        /\ NumGt(chart.std, Num(R(632, 100))) /\ NumLt(chart.std, Num(R(633, 100)))
        /\ NumLt(Num(RInt(30)), chart.ucl) /\ NumGt(Num(RInt(30)), chart.lcl)
        /\ chart.ooc = <<>>

C13_Witness ==
    /\ pc = "done" /\ op = "create_control_chart"
    /\ ColumnValues = NineTensAndThirty
    /\ NumLt(chart.ucl, Num(RInt(31)))
    /\ Len(chart.ooc) = 0

\* C14: for the resin age column of 50 values evenly spaced from 1 to 200,
\* drilled down with its specification limits (0, 250), the index is a finite
\* number, it is min(usl - mean, mean - lsl) / (3 standard deviations) with
\* the sample standard deviation, and the classification is CAPABLE only if
\* the index is at least 1.33.
C14_DriftCapability ==
    (pc = "done" /\ op = "drill_down" /\ param = "CMA - Resin Age (cycles)"
        /\ ColumnValues = Linspace(1, 200, 50)) =>
        /\ lsl = Num(RZero) /\ usl = Num(RInt(250))
        /\ IsFinite(ppk)
        /\ NumSign(chart.std) > 0
        /\ NumEq(NumMul(chart.std, chart.std), Num(RefVar))
        /\ NumEq(NumMul(ppk, NumMul(Three, chart.std)), Num(RefMargin))
        /\ cls = "CAPABLE" => ~NumLt(ppk, Num(R(133, 100)))

C14_Witness ==
    /\ pc = "done" /\ op = "drill_down" /\ param = "CMA - Resin Age (cycles)"
    /\ N = 50 /\ df[1].value = ROne /\ df[50].value = RInt(200)
    /\ chart.mean = Num(R(201, 2))
    /\ IsFinite(ppk)
    /\ NumGt(ppk, Num(R(56, 100))) /\ NumLt(ppk, Num(R(57, 100)))
    /\ cls = "NOT_CAPABLE"

NonNegative == \A i \in 1..N : RSign(df[i].value) >= 0

\* C15: the lower control limit is not clamped at zero: for a series of
\* non-negative values whose mean is below 3 sample standard deviations, the
\* lower limit is the negative number mean - 3 standard deviations.
C15_NoZeroFloor ==
    (ChartDone /\ N >= 2 /\ NonNegative
        /\ RLt(RMul(RefMean, RefMean), RMul(RInt(9), RefVar))) =>
        /\ IsFinite(chart.lcl)
        /\ NumSign(chart.lcl) < 0
        /\ NumEq(NumAdd(chart.lcl, NumMul(Three, chart.std)), Num(RefMean))
        /\ NumSign(chart.std) > 0
        /\ NumEq(NumMul(chart.std, chart.std), Num(RefVar))

C15_Witness ==
    /\ pc = "done" /\ op = "drill_down" /\ N >= 2 /\ NonNegative
    /\ NumSign(chart.mean) > 0
    /\ NumLt(chart.mean, NumMul(Three, chart.std))
    /\ NumSign(chart.lcl) < 0

Reference == SubSeq(df, 1, N - 1)
ReferenceLimits == create_control_chart(Reference)

\* the squared distance of batch i from the mean of the column
SqDist(i) == RMul(RSub(df[i].value, RefMean), RSub(df[i].value, RefMean))

\* C17 as claimed: the points reported for a series are those outside limits
\* the caller supplies, here limits computed from a different reference
\* series (the reference period), and not limits derived from the series
\* itself.
C17_SuppliedLimits ==
    (ChartDone /\ N >= 3) =>
        chart.ooc = out_of_control(df, ReferenceLimits.ucl, ReferenceLimits.lcl)

\* C17 as amended: the limits are derived on every call from the very series
\* that is classified: a point is reported iff the series has at least 2
\* measurements and the point is more than 3 sample standard deviations of
\* that series away from its mean.
C17_OwnLimits ==
    ChartDone =>
        \A i \in 1..N :
            Reported(i) <=> (N >= 2 /\ RLt(RMul(RInt(9), RefVar), SqDist(i)))

C17_Witness ==
    /\ ChartDone /\ N >= 3
    /\ Len(chart.ooc) = 2
    /\ out_of_control(df, ReferenceLimits.ucl, ReferenceLimits.lcl) = <<>>

\* batch i is inside mean +/- 3 sample standard deviations of the column
Inside(i) == N >= 2 /\ RLe(SqDist(i), RMul(RInt(9), RefVar))
IsRun(s) ==
    /\ s >= 1 /\ s + NelsonRun - 1 <= N
    /\ \/ \A i \in s..(s + NelsonRun - 1) : RLt(df[i].value, RefMean)
       \/ \A i \in s..(s + NelsonRun - 1) : RLt(RefMean, df[i].value)
HasRun == \E s \in 1..N : IsRun(s)

C20_SmallSeriesNeverFlagged ==
    ChartDone =>
        /\ N >= 2 =>
            \A i \in 1..N :
                ~NumGt(NumMul(Num(RInt(N)), Num(SqDist(i))),
                       NumMul(Num(RInt((N - 1) * (N - 1))), NumMul(chart.std, chart.std)))
        /\ (N >= 2 /\ N <= 10) => chart.ooc = <<>>
        /\ Len(chart.ooc) > 0 => N >= 11

C20_Witness ==
    /\ ChartDone /\ N = 11
    /\ Len(chart.ooc) = 1
    /\ \A i \in 1..N : df[i] # chart.ooc[1] => df[i].value = RInt(10)

\* the constant value of the column lies outside [lsl, usl]
OutsideWindow == RLt(usl.a, RefMean) \/ RLt(RefMean, lsl.a)

\* C21: for a column of identical values the index is positive infinity and
\* the drill-down classification CAPABLE whatever the specification limits,
\* also when the constant value lies outside [lsl, usl].
C21_ConstantOutsideWindow ==
    (PpkDone /\ N >= 2 /\ AllSame) =>
        /\ ppk = Inf
        /\ op = "drill_down" => cls = "CAPABLE"
        /\ OutsideWindow => (ppk = Inf /\ ~NumLt(ppk, Num(R(133, 100))))

C21_Witness ==
    /\ pc = "done" /\ op = "drill_down" /\ ppk # None
    /\ N >= 2 /\ AllSame /\ OutsideWindow
    /\ NumLt(lsl, usl)
    /\ ppk = Inf /\ cls = "CAPABLE"

\* C23: with non-zero standard deviation and lsl <= usl the index is
\* non-negative iff the mean lies in [lsl, usl]; a mean outside the window
\* gives a negative index and the classification NOT_CAPABLE.
C23_SignOfIndex ==
    (PpkDone /\ N >= 2 /\ ~AllSame /\ ~NumLt(usl, lsl)) =>
        /\ NumSign(ppk) >= 0 <=> ~OutsideWindow
        /\ OutsideWindow =>
            /\ IsFinite(ppk) /\ NumSign(ppk) < 0
            /\ op = "drill_down" => cls = "NOT_CAPABLE"

C23_Witness ==
    /\ pc = "done" /\ op = "drill_down" /\ ppk # None
    /\ N >= 2 /\ ~AllSame /\ NumLt(lsl, usl) /\ OutsideWindow
    /\ NumSign(ppk) < 0 /\ cls = "NOT_CAPABLE"

\* the sample standard deviation of the column, and the spread index
\* (usl - lsl) / (6 sigma)
RefSigma == NumSqrt(Num(RefVar))
SpreadIndex == NumDiv(NumSub(usl, lsl), NumMul(Num(RInt(6)), RefSigma))
MeanIsMidpoint == RMul(RInt(2), RefMean) = RAdd(usl.a, lsl.a)

\* C24: with non-zero standard deviation sigma the index never exceeds
\* (usl - lsl) / (6 sigma) and equals it exactly when the mean is the midpoint
\* of the specification limits.
C24_SpreadBound ==
    (PpkDone /\ N >= 2 /\ ~AllSame) =>
        /\ ~NumGt(ppk, SpreadIndex)
        /\ NumEq(ppk, SpreadIndex) <=> MeanIsMidpoint

C24_Witness ==
    /\ pc = "done" /\ op = "calculate_ppk"
    /\ N >= 2 /\ ~AllSame /\ NumLt(lsl, usl)
    /\ MeanIsMidpoint
    /\ NumEq(ppk, SpreadIndex) /\ NumSign(ppk) > 0

\* C25: with at least 2 measurements lcl <= mean <= ucl and
\* min <= mean <= max; for identical values ucl = lcl = mean and no point is
\* reported.
C25_MeanBetweenLimits ==
    (ChartDone /\ N >= 2) =>
        /\ ~NumGt(chart.lcl, chart.mean) /\ ~NumGt(chart.mean, chart.ucl)
        /\ IsFinite(chart.lcl) /\ IsFinite(chart.ucl)
        /\ \E i \in 1..N : ~NumGt(Num(df[i].value), chart.mean)
        /\ \E i \in 1..N : ~NumLt(Num(df[i].value), chart.mean)
        /\ AllSame =>
            /\ NumEq(chart.ucl, chart.mean) /\ NumEq(chart.lcl, chart.mean)
            /\ chart.mean = Num(df[1].value)
            /\ chart.ooc = <<>>

C25_Witness ==
    /\ pc = "done" /\ op = "create_control_chart"
    /\ N >= 2 /\ AllSame /\ RSign(df[1].value) > 0
    /\ NumEq(chart.ucl, chart.lcl)
    /\ chart.ooc = <<>>

\* the constants added to every value of the column
Shifts == {RInt(-7), R(1, 2)}
Shifted(c) == MkDf([i \in 1..N |-> RAdd(df[i].value, c)])
Ids(rows) == [j \in 1..Len(rows) |-> rows[j].id]

\* C26: adding a constant c to every value shifts mean, ucl and lcl by c,
\* leaves the standard deviation as it is and marks the same batch
\* identifiers; with the specification limits shifted by c as well, index and
\* classification are the same.
C26_ShiftInvariance ==
    /\ ChartDone =>
        \A c \in Shifts :
            \A sh \in {create_control_chart(Shifted(c))} :
                /\ sh.mean = NumAdd(chart.mean, Num(c))
                /\ sh.ucl = NumAdd(chart.ucl, Num(c))
                /\ sh.lcl = NumAdd(chart.lcl, Num(c))
                /\ sh.std = chart.std
                /\ Ids(sh.ooc) = Ids(chart.ooc)
    /\ PpkDone =>
        \A c \in Shifts :
            \A shppk \in {calculate_ppk(Values(Shifted(c)),
                                        NumAdd(usl, Num(c)), NumAdd(lsl, Num(c)))} :
                /\ shppk = ppk
                /\ Classify(shppk) = Classify(ppk)

C26_Witness ==
    /\ pc = "done" /\ op = "drill_down" /\ ppk # None
    /\ Len(chart.ooc) > 0
    /\ IsFinite(ppk)
    /\ \A c \in Shifts :
        /\ create_control_chart(Shifted(c)).mean # chart.mean
        /\ Ids(create_control_chart(Shifted(c)).ooc) = Ids(chart.ooc)

\* C27: the drill-down computes an index iff spec_limits has an entry for the
\* selected parameter; the Resin Age entry (0, 250), whose lower limit is 0,
\* counts as present and is evaluated; without an entry there is no index and
\* no classification.
C27_IndexIffEntry ==
    (pc = "done" /\ op = "drill_down") =>
        /\ ppk # None <=> param \in DOMAIN spec_limits
        /\ cls # "none" <=> param \in DOMAIN spec_limits
        /\ param = "CMA - Resin Age (cycles)" =>
            /\ lsl = Num(RZero) /\ usl = Num(RInt(250))
            /\ ppk = calculate_ppk(Values(df), usl, lsl)
            /\ cls \in {"NOT_CAPABLE", "MARGINAL", "CAPABLE"}

C27_Witness ==
    /\ pc = "done" /\ op = "drill_down" /\ param = "CMA - Resin Age (cycles)"
    /\ lsl = Num(RZero)
    /\ N >= 2 /\ ~AllSame
    /\ IsFinite(ppk) /\ cls = "MARGINAL"

\* C28: the overview warns exactly when the drill-down classification of the
\* same index is NOT_CAPABLE or MARGINAL, and shows no warning exactly when it
\* is CAPABLE (positive infinity included).
C28_WarningAgrees ==
    (pc = "done" /\ op = "overview") =>
        /\ notice = "warning" <=> Classify(ppk) \in {"NOT_CAPABLE", "MARGINAL"}
        /\ notice = "none" <=> Classify(ppk) = "CAPABLE"
        /\ ppk = Inf => notice = "none"

C28_Witness ==
    /\ pc = "done" /\ op = "overview"
    /\ NumEq(ppk, Num(R(133, 100)))
    /\ notice = "none" /\ Classify(ppk) = "CAPABLE"

\* C22: every copy of the limit and capability logic uses the sample standard
\* deviation (N-1 denominator) of the column: the chart of the CPV page, the
\* index of the CPV page and the I-chart of the analytics page; the I-chart
\* limits are the limits the CPV chart gives for the same column.
C22_SameStandardDeviation ==
    (pc = "done" /\ N >= 2) =>
        /\ (ChartDone \/ op = "i_chart") =>
            /\ NumSign(chart.std) >= 0
            /\ NumEq(NumMul(chart.std, chart.std), Num(RefVar))
            /\ NumEq(NumSub(chart.ucl, chart.mean), NumMul(Three, RefSigma))
            /\ NumEq(NumSub(chart.mean, chart.lcl), NumMul(Three, RefSigma))
        /\ op = "i_chart" =>
            \A cpv \in {create_control_chart(df)} :
                /\ chart.mean = cpv.mean
                /\ chart.ucl = cpv.ucl
                /\ chart.lcl = cpv.lcl
        /\ (ppk # None /\ ~AllSame) =>
            NumEq(NumMul(ppk, NumMul(Three, RefSigma)),
                  PyMin(NumSub(usl, Num(RefMean)), NumSub(Num(RefMean), lsl)))
        /\ (ppk # None /\ ChartDone /\ ~AllSame) =>
            NumEq(NumMul(ppk, NumMul(Three, chart.std)),
                  PyMin(NumSub(usl, chart.mean), NumSub(chart.mean, lsl)))

C22_Witness ==
    /\ pc = "done" /\ op = "i_chart" /\ N >= 3
    /\ chart.std.b # RZero
    /\ NumLt(chart.lcl, chart.mean)
    /\ IsFinite(mr.ucl) /\ NumGt(mr.ucl, mr.mean)

Threshold == flow_threshold(viral_df)
IsBelow(i) == RLt(viral_df[i].flow, Threshold)
RowAsPoint(i) == [throughput |-> Num(viral_df[i].throughput), flow |-> Num(viral_df[i].flow)]

\* C29: the capacity limit is the first row, in increasing throughput order,
\* whose flow rate is strictly below 80% of the first row's flow rate: every
\* row before it is at or above the threshold; when no row is below the
\* threshold the lookup fails (IndexError) and there is no capacity point.
C29_CapacityPoint ==
    (pc = "done" /\ op = "capacity_point") =>
        /\ \A i, j \in 1..Len(viral_df) :
                i < j => RLt(viral_df[i].throughput, viral_df[j].throughput)
        /\ Threshold = RDiv(RMul(RInt(4), viral_df[1].flow), RInt(5))
        /\ IF \E i \in 1..Len(viral_df) : IsBelow(i)
           THEN /\ raised = "none"
                /\ \E k \in 1..Len(viral_df) :
                    /\ capacity_point = RowAsPoint(k)
                    /\ IsBelow(k)
                    /\ \A j \in 1..(k - 1) : ~IsBelow(j)
           ELSE /\ raised = "IndexError"
                /\ capacity_point = NoPoint

C29_Witness ==
    /\ pc = "done" /\ op = "capacity_point" /\ raised = "none"
    /\ Len(viral_df) >= 4
    /\ viral_df[2].flow = Threshold
    /\ capacity_point = RowAsPoint(3)
    /\ IsBelow(4)

=============================================================================
